---- MODULE Spec2Model ----
(***************************************************************************)
(* tomlantic: a pydantic model bound to a tomlkit document.                *)
(*                                                                         *)
(* The state is one ModelBoundTOML instance (model, __original_model,      *)
(* __document) together with the record of the last call made on it.       *)
(* Python values are tagged tuples, so that values of different Python     *)
(* types are comparable: <<"str", s>>, <<"int", i>>, <<"bool", b>>,        *)
(* <<"none">>, a tomlkit table or document <<"table", items>> and a        *)
(* pydantic instance <<"model", type, fields>>.  A location is the tuple   *)
(* of its segments (the code splits a dotted string on "."; field names    *)
(* are Python identifiers and hold no dot).                                *)
(*                                                                         *)
(* pydantic and tomlkit are libraries outside the repository.  They are    *)
(* modelled by what the repository's scripts rely on: lax-mode validation  *)
(* (tests/test-lottemusicfriend.py binds api_id = "000" to an int field),  *)
(* validate_assignment = True (showcase.py:8,15) and extra keys ignored.   *)
(***************************************************************************)
EXTENDS Integers, Sequences, FiniteSets, TLC

VARIABLES
    pc,              \* "unbound" | "bound" | "failed": ModelBoundTOML.__init__ not run / returned / raised
    model,           \* ModelBoundTOML.model
    original_model,  \* ModelBoundTOML.__original_model
    document,        \* ModelBoundTOML.__document (the caller's document, by reference)
    assigned,        \* history: the locations the caller assigned since bind
    op,              \* name of the last call
    args,            \* its arguments
    outcome,         \* "ok" or the class of the exception it raised
    returned,        \* its return value, or what the exception it raised carries
    handle           \* a reference the caller took from ModelBoundTOML.model and kept:
                     \* None (none taken), Live, or the tree it refers to

vars == <<pc, model, original_model, document, assigned, op, args, outcome, returned, handle>>

\* Largest integer written to the int field.
MaxApiId == 2

\* the largest number of failures in one pydantic.ValidationError
MaxErrors == 2

\* the largest number of records in a list or dict of the tree
MaxItems == 3

-----------------------------------------------------------------------------
(* Python values *)

None == <<"none">>
PyStr(s) == <<"str", s>>
PyInt(i) == <<"int", i>>
PyBool(b) == <<"bool", b>>
Table(items) == <<"table", items>>
\* a Python list; a tomlkit array of tables [[key]] is <<"aot", tables>>
PyList(elements) == <<"list", elements>>
AoT(tables) == <<"aot", tables>>
\* a Python dict with str keys
PyDict(entries) == <<"dict", entries>>
Instance(type, fields) == <<"model", type, fields>>

EmptyItems == [k \in {} |-> None]

\* isinstance(v, (TOMLDocument, toml_items.Table))
IsTable(v) == v[1] = "table"

\* isinstance(v, BaseModel)
IsBaseModel(v) == v[1] = "model"

\* key in table
Contains(toml, key) == key \in DOMAIN toml[2]

\* table[key]
Item(toml, key) == toml[2][key]

\* table[key] = value
SetItem(toml, key, value) ==
    Table([k \in DOMAIN toml[2] \cup {key} |-> IF k = key THEN value ELSE toml[2][k]])

\* getattr(instance, key) of a declared field
Attr(instance, key) == instance[3][key]

\* the instance with field key holding value
WithAttr(instance, key, value) ==
    Instance(instance[2], [instance[3] EXCEPT ![key] = value])

-----------------------------------------------------------------------------
(* The schema the instance is bound to: showcase.py's File and Project,   *)
(* with a default for `project`, and a nullable nested record `extra`:     *)
(*     class Project(BaseModel): name: str; typechecked: bool              *)
(*     class Extra(BaseModel):   api_id: int                               *)
(*     class File(BaseModel):                                              *)
(*         project: Project = Project(name="tomlantic", typechecked=False) *)
(*         extra: Optional[Extra] = None                                   *)

Absent == <<"absent">>

FieldNames(type) ==
    CASE type = "File" -> <<"project", "extra">>
      [] type = "Project" -> <<"name", "typechecked">>
      [] type = "Extra" -> <<"api_id">>
      [] type = "ConfigWithArray" -> <<"title", "items">>
      [] type = "Item" -> <<"name", "value">>
      [] type = "PhonyplaneConfig" -> <<"flights">>
      [] type = "Flight" -> <<"ident">>

ProjectDefault ==
    Instance("Project", [name |-> PyStr("tomlantic"), typechecked |-> PyBool(FALSE)])

\* annotation of a field: its type, whether it is Optional[...], and its default
\* (Absent for a required field)
Annotation(type, key) ==
    CASE type = "File" /\ key = "project" ->
            [type |-> "Project", optional |-> FALSE, default |-> ProjectDefault]
      [] type = "File" /\ key = "extra" ->
            [type |-> "Extra", optional |-> TRUE, default |-> None]
      [] type = "Project" /\ key = "name" ->
            [type |-> "str", optional |-> FALSE, default |-> Absent]
      [] type = "Project" /\ key = "typechecked" ->
            [type |-> "bool", optional |-> FALSE, default |-> Absent]
      [] type = "Extra" /\ key = "api_id" ->
            [type |-> "int", optional |-> FALSE, default |-> Absent]
      [] type = "ConfigWithArray" /\ key = "title" ->
            [type |-> "str", optional |-> FALSE, default |-> Absent]
      [] type = "ConfigWithArray" /\ key = "items" ->
            [type |-> "list", of |-> "Item", optional |-> FALSE, default |-> PyList(<<>>)]
      [] type = "Item" /\ key = "name" ->
            [type |-> "str", optional |-> FALSE, default |-> Absent]
      [] type = "Item" /\ key = "value" ->
            [type |-> "int", optional |-> FALSE, default |-> Absent]
      [] type = "PhonyplaneConfig" /\ key = "flights" ->
            [type |-> "dict", of |-> "Flight", optional |-> FALSE,
             default |-> PyDict(EmptyItems)]
      [] type = "Flight" /\ key = "ident" ->
            [type |-> "str", optional |-> FALSE, default |-> Absent]

IsDeclared(type, key) == \E i \in 1..Len(FieldNames(type)) : FieldNames(type)[i] = key

-----------------------------------------------------------------------------
(* pydantic validation (lax mode).  A result is the validated value and    *)
(* the list of pydantic_core.ErrorDetails (type, loc); value is meaningful *)
(* only when the list is empty.  A loc is a tuple of str and int items.    *)

Valid(v) == [errors |-> <<>>, value |-> v]
Invalid(type) == [errors |-> <<[type |-> type, loc |-> <<>>]>>, value |-> None]

\* the errors of a field's value, located under that field
Under(key, errors) ==
    [i \in 1..Len(errors) |-> [errors[i] EXCEPT !.loc = <<PyStr(key)>> \o @]]

ValidateStr(v) == IF v[1] = "str" THEN Valid(v) ELSE Invalid("string_type")

ValidateBool(v) ==
    CASE v[1] = "bool" -> Valid(v)
      [] v[1] = "str" ->
            IF v[2] \in {"1", "on", "t", "true", "y", "yes"} THEN Valid(PyBool(TRUE))
            ELSE IF v[2] \in {"0", "off", "f", "false", "n", "no"} THEN Valid(PyBool(FALSE))
            ELSE Invalid("bool_parsing")
      [] OTHER -> Invalid("bool_type")

ValidateInt(v) ==
    CASE v[1] = "int" -> Valid(v)
      [] v[1] = "str" ->
            IF \E i \in 0..(MaxApiId + 1) : ToString(i) = v[2]
            THEN Valid(PyInt(CHOOSE i \in 0..(MaxApiId + 1) : ToString(i) = v[2]))
            ELSE Invalid("int_parsing")
      [] OTHER -> Invalid("int_type")

RECURSIVE ValidateModel(_, _)
RECURSIVE ValidateFields(_, _, _)

\* list[of] from a list or an array of tables: element i of v onwards
RECURSIVE ValidateElements(_, _, _)
ValidateElements(of, v, i) ==
    IF i > Len(v[2]) THEN [errors |-> <<>>, value |-> <<>>]
    ELSE [errors |-> [n \in 1..Len(ValidateModel(of, v[2][i]).errors) |->
                         [ValidateModel(of, v[2][i]).errors[n]
                             EXCEPT !.loc = <<PyInt(i - 1)>> \o @]]
                     \o ValidateElements(of, v, i + 1).errors,
          value |-> <<ValidateModel(of, v[2][i]).value>>
                    \o ValidateElements(of, v, i + 1).value]

ValidateList(of, v) ==
    IF v[1] \notin {"list", "aot"} THEN Invalid("list_type")
    ELSE [errors |-> ValidateElements(of, v, 1).errors,
          value |-> IF ValidateElements(of, v, 1).errors = <<>>
                    THEN PyList(ValidateElements(of, v, 1).value) ELSE None]

\* dict[str, of] from a dict or a table: a failure is reported at the first key
\* that has one
ValidateDict(of, v) ==
    IF v[1] \notin {"dict", "table"} THEN Invalid("dict_type")
    ELSE IF \E k \in DOMAIN v[2] : ValidateModel(of, v[2][k]).errors # <<>>
    THEN [errors |-> Under(CHOOSE k \in DOMAIN v[2] : ValidateModel(of, v[2][k]).errors # <<>>,
                           ValidateModel(of, v[2][CHOOSE k \in DOMAIN v[2] :
                                ValidateModel(of, v[2][k]).errors # <<>>]).errors),
          value |-> None]
    ELSE Valid(PyDict([k \in DOMAIN v[2] |-> ValidateModel(of, v[2][k]).value]))

ValidateAnnotation(ann, v) ==
    IF ann.optional /\ v = None THEN Valid(None)
    ELSE CASE ann.type = "str" -> ValidateStr(v)
           [] ann.type = "bool" -> ValidateBool(v)
           [] ann.type = "int" -> ValidateInt(v)
           [] ann.type = "list" -> ValidateList(ann.of, v)
           [] ann.type = "dict" -> ValidateDict(ann.of, v)
           [] OTHER -> ValidateModel(ann.type, v)

\* the field `key` validated from the table `toml`: its entry, else its default
ValidateKey(ann, toml, key) ==
    IF Contains(toml, key) THEN ValidateAnnotation(ann, Item(toml, key))
    ELSE IF ann.default # Absent THEN Valid(ann.default)
    ELSE Invalid("missing")

WithField(key, this, rest) ==
    [errors |-> Under(key, this.errors) \o rest.errors,
     value |-> (key :> this.value) @@ rest.value]

\* fields i.. of `type` validated from the table `toml`
ValidateFields(type, toml, i) ==
    IF i > Len(FieldNames(type)) THEN [errors |-> <<>>, value |-> EmptyItems]
    ELSE WithField(FieldNames(type)[i],
                   ValidateKey(Annotation(type, FieldNames(type)[i]), toml, FieldNames(type)[i]),
                   ValidateFields(type, toml, i + 1))

Construct(type, r) ==
    [errors |-> r.errors,
     value |-> IF r.errors = <<>> THEN Instance(type, r.value) ELSE None]

\* type.model_validate(v): an instance is kept, a mapping is validated field by
\* field (keys that are no field are ignored), anything else is refused
ValidateModel(type, v) ==
    IF IsBaseModel(v) THEN (IF v[2] = type THEN Valid(v) ELSE Invalid("model_type"))
    ELSE IF ~IsTable(v) THEN Invalid("model_type")
    ELSE Construct(type, ValidateFields(type, v, 1))

-----------------------------------------------------------------------------
(* handle_validation_error.  A TOMLBaseSingleError is its class, its loc   *)
(* (a tuple of str, here a tuple of strings) and the ErrorDetails it was   *)
(* made from; a TOMLValidationError is its errors and the lines of its     *)
(* message after the first.                                                *)

\* pydantic_error["type"] is a str or None; None is the string no tag is
NoType == "None"

\* validate_homogeneous_collection(v, t) for a tuple v: TypeError unless every
\* item is of type t
ValidateHomogeneousCollection(v, t) ==
    IF \A i \in 1..Len(v) : v[i][1] = t
    THEN [outcome |-> "ok", value |-> v]
    ELSE [outcome |-> "TypeError", value |-> None]

\* the tuple of str as a tuple of strings
Strings(v) == [i \in 1..Len(v) |-> v[i][2]]

\* the override is dropped and the loc of the failure is taken
LocIgnoringOverride(pydantic_error, location_override) ==
    IF ValidateHomogeneousCollection(pydantic_error.loc, "str").outcome = "ok"
    THEN Strings(pydantic_error.loc)
    ELSE <<"unknown">>

\* loc = ("unknown",), replaced unless the try block raises
Loc(pydantic_error, location_override) ==
    IF location_override # None THEN location_override
    ELSE IF ValidateHomogeneousCollection(pydantic_error.loc, "str").outcome = "ok"
    THEN Strings(pydantic_error.loc)
    ELSE <<"unknown">>

\* every failure is a value error
ErrorClassValueOnly(type) == "TOMLValueError"

\* the if/elif chain on pydantic_error["type"]
ErrorClass(type) ==
    IF type = "missing" THEN "TOMLMissingError"
    ELSE IF type \in {"frozen_field", "frozen_instance"} THEN "TOMLFrozenError"
    ELSE IF type \in {"no_such_attribute", "extra_forbidden"} THEN "TOMLAttributeError"
    ELSE "TOMLValueError"

SingleError(pydantic_error, location_override) ==
    [class |-> ErrorClass(pydantic_error.type),
     loc |-> Loc(pydantic_error, location_override),
     pydantic_error |-> pydantic_error]

HasType(pydantic_error) == pydantic_error.type # NoType

\* no failure is passed over
ReportedAll(errors) == errors

\* `if pydantic_error["type"] is None: continue`
Reported(errors) == SelectSeq(errors, HasType)

\* f'Field "{loc}": {msg} ({type})'
MessageLine(tomlantic_error) ==
    [field |-> tomlantic_error.loc, type |-> tomlantic_error.pydantic_error.type]

TOMLValidationError(errors) ==
    [errors |-> errors,
     message |-> [i \in 1..Len(errors) |-> MessageLine(errors[i])]]

SingleErrors(reported, location_override) ==
    [i \in 1..Len(reported) |-> SingleError(reported[i], location_override)]

\* handle_validation_error(e, location_override): the exception it raises
HandleValidationError(errors, location_override) ==
    TOMLValidationError(SingleErrors(Reported(errors), location_override))

-----------------------------------------------------------------------------
(* Documents the caller may hold *)

NameValues == {PyStr("tomlantic"), PyStr("NOT tomlantic")}
TypecheckedValues == {PyBool(FALSE), PyBool(TRUE)}
ApiIdValues == {PyInt(i) : i \in 1..MaxApiId}

\* a table holding the given optional entries: `entries` maps a key to a value
\* or to the marker Absent
TableOf(entries) ==
    Table([k \in {k \in DOMAIN entries : entries[k] # Absent} |-> entries[k]])

ProjectTables ==
    {TableOf([name |-> n, typechecked |-> t]) :
        n \in NameValues, t \in TypecheckedValues \cup {PyStr("???"), Absent}}

ExtraTables == {Table("api_id" :> a) : a \in ApiIdValues \cup {PyStr(ToString(1))}}

\* documents with keys that are no field of the model: whuh = "???" in
\* [project], at the top, and a table [whuh]
UndeclaredDocuments ==
    {Table("project" :> Table([name |-> PyStr("NOT tomlantic"),
                               typechecked |-> PyStr("???"), whuh |-> PyStr("???")])),
     Table([project |-> Table([name |-> PyStr("NOT tomlantic"),
                               typechecked |-> PyBool(TRUE), whuh |-> PyStr("???")]),
            whuh |-> PyStr("???")]),
     Table([whuh |-> Table([name |-> PyStr("NOT tomlantic")]),
            extra |-> Table("api_id" :> PyInt(MaxApiId))])}

\* documents handed to difference_between_document and load_from_document
IncomingDocuments ==
    {TableOf([project |-> p, extra |-> e]) :
        p \in ProjectTables \cup {PyStr("scalar"), Absent},
        e \in ExtraTables \cup {Absent}}
    \cup UndeclaredDocuments

\* documents handed to ModelBoundTOML(...)
BindDocuments ==
    {TableOf([project |-> p, extra |-> e, whuh |-> w]) :
        p \in {Absent,
                Table([name |-> PyStr("tomlantic"), typechecked |-> PyBool(FALSE)]),
                Table([name |-> PyStr("tomlantic"), typechecked |-> PyStr("???")]),
                Table([name |-> PyStr("tomlantic")])},
        e \in {Absent, Table("api_id" :> PyInt(1)), Table("api_id" :> PyStr(ToString(1)))},
        w \in {Absent, PyStr("???")}}

-----------------------------------------------------------------------------
(* Path addressing *)

\* _get_model_field: getattr along the location, default on AttributeError
RECURSIVE GetModelField(_, _, _)
GetModelField(m, location, default) ==
    IF location = <<>> THEN m
    ELSE IF IsBaseModel(m) /\ IsDeclared(m[2], Head(location))
    THEN GetModelField(Attr(m, Head(location)), Tail(location), default)
    ELSE default

\* get_toml_field: the walk calls field.get, which only a table has
RECURSIVE GetTomlField(_, _, _)
GetTomlField(field, location, default) ==
    IF location = <<>> THEN [outcome |-> "ok", value |-> field]
    ELSE IF ~IsTable(field) THEN [outcome |-> "AttributeError", value |-> None]
    ELSE LET next_field == IF Contains(field, Head(location))
                           THEN Item(field, Head(location)) ELSE default
         IN  IF next_field = default THEN [outcome |-> "ok", value |-> default]
             ELSE GetTomlField(next_field, Tail(location), default)

\* a table is put wherever the field holds no table at loc
EnsureTable(field, loc) ==
    IF Contains(field, loc) /\ IsTable(Item(field, loc)) THEN field
    ELSE SetItem(field, loc, Table(EmptyItems))

\* the missing table is made the only entry of the field
EnsureAlone(field, loc) ==
    IF Contains(field, loc) THEN field ELSE Table(loc :> Table(EmptyItems))

\* `if loc not in field: field[loc] = toml_table()`
Ensure(field, loc) ==
    IF Contains(field, loc) THEN field ELSE SetItem(field, loc, Table(EmptyItems))

\* the node that is no table is overwritten by a table before the raise
RaisedAfterOverwrite(field, loc) == SetItem(field, loc, Table(EmptyItems))

\* `raise LookupError(...)`: the field as the loop leaves it at the raise
RaisedAt(field, loc) == field

\* set_toml_field
RECURSIVE SetTomlField(_, _, _)
SetTomlField(field, location, value) ==
    IF Len(location) = 1
    THEN [outcome |-> "ok", toml |-> SetItem(field, location[1], value)]
    ELSE LET loc == Head(location)
             created == Ensure(field, loc)
             target == Item(created, loc)
         IN  IF ~IsTable(target)
             THEN [outcome |-> "LookupError", toml |-> RaisedAt(created, loc)]
             ELSE LET r == SetTomlField(target, Tail(location), value)
                  IN  [outcome |-> r.outcome, toml |-> SetItem(created, loc, r.toml)]

-----------------------------------------------------------------------------
(* Assignment to a field of the object tree *)

\* the tree m with the value at location replaced (location addresses a field
\* of an instance that exists)
RECURSIVE Replace(_, _, _)
Replace(m, location, value) ==
    IF location = <<>> THEN value
    ELSE WithAttr(m, Head(location),
                  Replace(Attr(m, Head(location)), Tail(location), value))

\* the walk of set_field, `for loc in location[:-1]: field = getattr(field, loc)`,
\* then setattr(field, location[-1], value) under validate_assignment
RECURSIVE CanWalk(_, _)
CanWalk(m, location) ==
    \/ location = <<>>
    \/ /\ IsBaseModel(m)
       /\ IsDeclared(m[2], Head(location))
       /\ CanWalk(Attr(m, Head(location)), Tail(location))

\* setattr(field, key, value) where validation gave r; location = walk + key
Validated(m, location, key, r) ==
    IF r.errors # <<>>
    THEN [outcome |-> "ValidationError", errors |-> Under(key, r.errors), model |-> m]
    ELSE [outcome |-> "ok", errors |-> <<>>, model |-> Replace(m, location, r.value)]

\* a plain setattr: the value is stored as given, nothing is validated
SetattrUnvalidated(m, location, walked, field, key, value) ==
    IF ~walked \/ ~IsBaseModel(field)
    THEN [outcome |-> "AttributeError", errors |-> <<>>, model |-> m]
    ELSE [outcome |-> "ok", errors |-> <<>>, model |-> Replace(m, location, value)]

SetattrOn(m, location, walked, field, key, value) ==
    IF ~walked \/ ~IsBaseModel(field)
    THEN [outcome |-> "AttributeError", errors |-> <<>>, model |-> m]
    ELSE IF ~IsDeclared(field[2], key)
    THEN [outcome |-> "ValidationError",
          errors |-> <<[type |-> "no_such_attribute", loc |-> <<PyStr(key)>>]>>, model |-> m]
    ELSE Validated(m, location, key, ValidateAnnotation(Annotation(field[2], key), value))

Setattr(m, location, value) ==
    SetattrOn(m, location,
              CanWalk(m, SubSeq(location, 1, Len(location) - 1)),
              GetModelField(m, SubSeq(location, 1, Len(location) - 1), None),
              location[Len(location)], value)

\* `except ValidationError as err`: re-raised, or handed to handle_validation_error
\* with location as the override; `raised` is what the exception carries
Translate(r, location, handle_errors) ==
    IF r.outcome = "ValidationError" /\ handle_errors
    THEN [outcome |-> "TOMLValidationError", errors |-> r.errors, model |-> r.model,
          raised |-> HandleValidationError(r.errors, location)]
    ELSE [outcome |-> r.outcome, errors |-> r.errors, model |-> r.model,
          raised |-> r.errors]

\* ModelBoundTOML.set_field
SetField(m, location, value, handle_errors) ==
    Translate(Setattr(m, location, value), location, handle_errors)

-----------------------------------------------------------------------------
(* ModelBoundTOML.model_dump_toml *)

\* toml[key] = value with a Python value: tomlkit converts it to an item and
\* has no item for None nor for a BaseModel, on its own or in a list or dict
RECURSIVE CanConvert(_)
CanConvert(value) ==
    /\ value # None
    /\ ~IsBaseModel(value)
    /\ value[1] = "list" => \A i \in 1..Len(value[2]) : CanConvert(value[2][i])
    /\ value[1] = "dict" => \A k \in DOMAIN value[2] : CanConvert(value[2][k])

RECURSIVE ApplyModelDifferences(_, _, _, _)
ApplyModelDifferences(original_model_, current_model, toml, i) ==
    IF i > Len(FieldNames(current_model[2])) THEN [outcome |-> "ok", toml |-> toml]
    ELSE LET cu_key == FieldNames(current_model[2])[i]
             og_val == Attr(original_model_, cu_key)
             cu_val == Attr(current_model, cu_key)
         IN  IF IsBaseModel(cu_val)
             THEN IF ~IsBaseModel(og_val)
                  THEN [outcome |-> "AssertionError", toml |-> toml]
                  ELSE LET created == IF Contains(toml, cu_key) THEN toml
                                      ELSE SetItem(toml, cu_key, Table(EmptyItems))
                           toml_cu_key == Item(created, cu_key)
                       IN  IF ~IsTable(toml_cu_key)
                           THEN [outcome |-> "AssertionError", toml |-> created]
                           ELSE LET r == ApplyModelDifferences(og_val, cu_val, toml_cu_key, 1)
                                    patched == SetItem(created, cu_key, r.toml)
                                IN  IF r.outcome # "ok"
                                    THEN [outcome |-> r.outcome, toml |-> patched]
                                    ELSE ApplyModelDifferences(original_model_, current_model,
                                                               patched, i + 1)
             ELSE IF og_val # cu_val
             THEN IF ~CanConvert(cu_val)
                  THEN [outcome |-> "ConvertError", toml |-> toml]
                  ELSE ApplyModelDifferences(original_model_, current_model,
                                             SetItem(toml, cu_key, cu_val), i + 1)
             ELSE ApplyModelDifferences(original_model_, current_model, toml, i + 1)

\* `document = self.__document`: the patches go to the stored document
DumpPatchesStored == FALSE

\* `document = deepcopy(self.__document)`: the patches go to a copy
DumpCopiesDocument == TRUE

Dumped(r, document_) ==
    [outcome |-> r.outcome,
     returned |-> IF r.outcome = "ok" THEN r.toml ELSE None,
     document |-> IF DumpCopiesDocument THEN document_ ELSE r.toml]

\* the document returned (the patched copy) and the stored document after the call
ModelDumpToml(original_model_, model_, document_) ==
    Dumped(ApplyModelDifferences(original_model_, model_, document_, 1), document_)

-----------------------------------------------------------------------------
(* ModelBoundTOML.difference_between_document *)

NoDifference == [incoming_changed_fields |-> <<>>, outgoing_changed_fields |-> <<>>]

\* the comparison with line 848 in force: an unequal field goes to both lists
CompareBoth(here, outgoing_key, outgoing_value, incoming_document) ==
    IF ~Contains(incoming_document, outgoing_key)
    THEN [NoDifference EXCEPT !.outgoing_changed_fields = <<here>>]
    ELSE IF outgoing_value # Item(incoming_document, outgoing_key)
    THEN [incoming_changed_fields |-> <<here>>, outgoing_changed_fields |-> <<here>>]
    ELSE NoDifference

\* a field that holds no BaseModel is compared directly
Compare(here, outgoing_key, outgoing_value, incoming_document) ==
    IF ~Contains(incoming_document, outgoing_key)
    THEN [NoDifference EXCEPT !.outgoing_changed_fields = <<here>>]
    ELSE IF outgoing_value # Item(incoming_document, outgoing_key)
    THEN [NoDifference EXCEPT !.incoming_changed_fields = <<here>>]
    ELSE NoDifference

RECURSIVE FindDifferences(_, _, _, _)
FindDifferences(location, outgoing_model, incoming_document, i) ==
    IF i > Len(FieldNames(outgoing_model[2])) THEN NoDifference
    ELSE LET outgoing_key == FieldNames(outgoing_model[2])[i]
             outgoing_value == Attr(outgoing_model, outgoing_key)
             here == location \o <<outgoing_key>>
             this ==
                IF IsBaseModel(outgoing_value)
                THEN IF ~Contains(incoming_document, outgoing_key)
                     THEN [NoDifference EXCEPT !.outgoing_changed_fields = <<here>>]
                     ELSE IF ~IsTable(Item(incoming_document, outgoing_key))
                     THEN [NoDifference EXCEPT !.incoming_changed_fields = <<here>>]
                     ELSE FindDifferences(here, outgoing_value,
                                          Item(incoming_document, outgoing_key), 1)
                ELSE Compare(here, outgoing_key, outgoing_value, incoming_document)
             rest == FindDifferences(location, outgoing_model, incoming_document, i + 1)
         IN  [incoming_changed_fields |->
                  this.incoming_changed_fields \o rest.incoming_changed_fields,
              outgoing_changed_fields |->
                  this.outgoing_changed_fields \o rest.outgoing_changed_fields]

\* the keys of the document at the top and in [project] that the model has no
\* field for
Undeclared(incoming_document) ==
    (IF Contains(incoming_document, "whuh") THEN <<(<<"whuh">>)>> ELSE <<>>)
    \o (IF /\ Contains(incoming_document, "project")
           /\ IsTable(Item(incoming_document, "project"))
           /\ Contains(Item(incoming_document, "project"), "whuh")
        THEN <<(<<"project", "whuh">>)>> ELSE <<>>)

\* the keys the model has no field for are reported as incoming changes
DifferenceWithUndeclared(model_, incoming_document) ==
    [FindDifferences(<<>>, model_, incoming_document, 1)
        EXCEPT !.incoming_changed_fields = @ \o Undeclared(incoming_document)]

DifferenceBetweenDocument(model_, incoming_document) ==
    FindDifferences(<<>>, model_, incoming_document, 1)

InSeq(x, s) == \E i \in 1..Len(s) : s[i] = x

-----------------------------------------------------------------------------
(* ModelBoundTOML.load_from_document *)

\* the test without its comparison with __original_model
SkippedOutgoingOnly(model_, original_model_, differences, location, selective) ==
    /\ selective
    /\ InSeq(location, differences.outgoing_changed_fields)

\* the test with == in place of != in the comparison with __original_model
SkippedWhenUnchanged(model_, original_model_, differences, location, selective) ==
    /\ selective
    /\ \/ InSeq(location, differences.outgoing_changed_fields)
       \/ GetModelField(model_, location, None)
              = GetModelField(original_model_, location, None)

\* the test without `selective and`
SkippedAlsoNonSelective(model_, original_model_, differences, location, selective) ==
    \/ InSeq(location, differences.outgoing_changed_fields)
    \/ GetModelField(model_, location, None)
           # GetModelField(original_model_, location, None)

\* no incoming change is passed over
SkippedNever(model_, original_model_, differences, location, selective) == FALSE

\* the test that makes the loop pass over an incoming change
Skipped(model_, original_model_, differences, location, selective) ==
    /\ selective
    /\ \/ InSeq(location, differences.outgoing_changed_fields)
       \/ GetModelField(model_, location, None)
              # GetModelField(original_model_, location, None)

RECURSIVE LoadLoop(_, _, _, _, _, _, _)

\* `new_model.set_field(location=..., value=get_toml_field(...))`, then the rest
\* of the loop
SetThenLoop(model_, original_model_, incoming_document, selective, differences, i, got, set) ==
    IF got.outcome # "ok" THEN [outcome |-> got.outcome, new_model |-> model_]
    ELSE IF set.outcome # "ok" THEN [outcome |-> set.outcome, new_model |-> set.model]
    ELSE LoadLoop(model_, original_model_, incoming_document, selective,
                  differences, set.model, i + 1)

\* the assignment is made whatever the field holds
HoldsAnything(model_, location) == TRUE

\* `if self.get_field(incoming_change_location) is not None`
HoldsValue(model_, location) == GetModelField(model_, location, None) # None

LoadStep(model_, original_model_, incoming_document, selective, differences, new_model, i,
         location) ==
    IF Skipped(model_, original_model_, differences, location, selective)
    THEN LoadLoop(model_, original_model_, incoming_document, selective,
                  differences, new_model, i + 1)
    ELSE IF HoldsValue(model_, location)
    THEN SetThenLoop(model_, original_model_, incoming_document, selective, differences, i,
                     GetTomlField(incoming_document, location, None),
                     SetField(new_model, location,
                              GetTomlField(incoming_document, location, None).value, TRUE))
    ELSE LoadLoop(model_, original_model_, incoming_document, selective,
                  differences, new_model, i + 1)

\* the loop over differences.incoming_changed_fields from index i on; new_model
\* is the model of the deep copy the assignments are made on
LoadLoop(model_, original_model_, incoming_document, selective, differences, new_model, i) ==
    IF i > Len(differences.incoming_changed_fields)
    THEN [outcome |-> "ok", new_model |-> new_model]
    ELSE LoadStep(model_, original_model_, incoming_document, selective, differences,
                  new_model, i, differences.incoming_changed_fields[i])

\* the assignments made on self.model itself: what they did stays when one raises
CommitInPlace(model_, r) ==
    [outcome |-> r.outcome, model |-> r.new_model]

\* `self.model = new_model.model` is reached when no assignment raised
Commit(model_, r) ==
    [outcome |-> r.outcome,
     model |-> IF r.outcome = "ok" THEN r.new_model ELSE model_]

\* the assignments are made on a copy of the snapshot
TrialCopyOfSnapshot(model_, original_model_) == original_model_

\* `new_model = deepcopy(self)`: the model the assignments are made on
TrialCopy(model_, original_model_) == model_

LoadWith(model_, original_model_, incoming_document, selective, differences) ==
    Commit(model_, LoadLoop(model_, original_model_, incoming_document, selective,
                            differences, TrialCopy(model_, original_model_), 1))

LoadFromDocument(model_, original_model_, incoming_document, selective) ==
    LoadWith(model_, original_model_, incoming_document, selective,
             DifferenceBetweenDocument(model_, incoming_document))

\* a reference taken from ModelBoundTOML.model that refers to the tree
\* self.model holds
Live == <<"live">>

\* the assignments are made on self.model itself: a reference stays live
HandleKept(handle_, model_, outcome_) == handle_

\* `self.model = new_model.model` binds the attribute to the tree of the copy:
\* a reference taken before refers to the tree self.model held until then
HandleAfterLoad(handle_, model_, outcome_) ==
    IF outcome_ = "ok" /\ handle_ = Live THEN model_ ELSE handle_

-----------------------------------------------------------------------------
(* ModelBoundTOML.__init__ *)

Init ==
    /\ pc = "unbound"
    /\ model = None
    /\ original_model = None
    /\ document \in BindDocuments
    /\ assigned = {}
    /\ op = "none"
    /\ args = <<>>
    /\ outcome = "ok"
    /\ returned = None
    /\ handle = None

\* `self.__original_model = self.model`: one object under two names
SnapshotIsAlias == FALSE

\* `self.__original_model = self.model.model_copy(deep=True)`: the snapshot is
\* an object of its own, which a write to self.model does not reach
SnapshotIsCopy == TRUE

OriginalModelAfterWrite(original_model_, written) ==
    IF SnapshotIsCopy THEN original_model_ ELSE written

\* the failure is translated whatever handle_errors says
RaisedTranslated(errors, handle_errors) ==
    [outcome |-> "TOMLValidationError", returned |-> HandleValidationError(errors, None)]

\* `except ValidationError as err`: raise err, or handle_validation_error(err)
Raised(errors, handle_errors) ==
    IF handle_errors
    THEN [outcome |-> "TOMLValidationError", returned |-> HandleValidationError(errors, None)]
    ELSE [outcome |-> "ValidationError", returned |-> errors]

\* ModelBoundTOML(model_type, document, handle_errors)
BindAs(model_type, handle_errors) ==
    /\ pc = "unbound"
    /\ \E r \in {ValidateModel(model_type, document)} :
           IF r.errors = <<>>
           THEN /\ pc' = "bound"
                /\ model' = r.value
                /\ original_model' = r.value
                /\ outcome' = "ok"
                /\ returned' = None
           ELSE /\ pc' = "failed"
                /\ UNCHANGED <<model, original_model>>
                /\ outcome' = Raised(r.errors, handle_errors).outcome
                /\ returned' = Raised(r.errors, handle_errors).returned
    /\ op' = "bind"
    /\ args' = <<handle_errors>>
    /\ UNCHANGED <<document, assigned, handle>>

Bind(handle_errors) == BindAs("File", handle_errors)

-----------------------------------------------------------------------------
(* Calls on a bound instance.  Each action is a whole call; op, args,      *)
(* outcome and returned record it until the caller discards the record.    *)

Idle == pc = "bound" /\ op = "none"

Locations ==
    {<<"project", "name">>, <<"project", "typechecked">>, <<"extra">>, <<"extra", "api_id">>}

\* values the caller assigns at a location
AssignedValues(location) ==
    CASE location = <<"project", "name">> -> NameValues
      [] location = <<"project", "typechecked">> -> TypecheckedValues \cup {PyStr("???")}
      [] location = <<"extra">> ->
            {None} \cup {Instance("Extra", [api_id |-> a]) : a \in ApiIdValues}
      [] location = <<"extra", "api_id">> -> ApiIdValues \cup {PyStr(ToString(1))}

\* toml.model.<location> = value, through the handle ModelBoundTOML.model
Assign(location, value) ==
    /\ Idle
    /\ \E r \in {Setattr(model, location, value)} :
           /\ model' = r.model
           /\ original_model' = OriginalModelAfterWrite(original_model, r.model)
           /\ outcome' = r.outcome
           /\ assigned' = IF r.outcome = "ok" THEN assigned \cup {location} ELSE assigned
    /\ op' = "assign"
    /\ args' = <<location, value>>
    /\ returned' = None
    /\ UNCHANGED <<pc, document, handle>>

\* toml.set_field(location, value, handle_errors)
CallSetField(location, value, handle_errors) ==
    /\ Idle
    /\ \E r \in {SetField(model, location, value, handle_errors)} :
           /\ model' = r.model
           /\ original_model' = OriginalModelAfterWrite(original_model, r.model)
           /\ outcome' = r.outcome
           /\ assigned' = IF r.outcome = "ok" THEN assigned \cup {location} ELSE assigned
           /\ returned' = IF r.outcome \in {"ValidationError", "TOMLValidationError"}
                          THEN r.raised ELSE None
    /\ op' = "set_field"
    /\ args' = <<location, value, handle_errors>>
    /\ UNCHANGED <<pc, document, handle>>

\* toml.get_field(location)
CallGetField(location) ==
    /\ Idle
    /\ op' = "get_field"
    /\ args' = <<location>>
    /\ outcome' = "ok"
    /\ returned' = GetModelField(model, location, None)
    /\ UNCHANGED <<pc, model, original_model, document, assigned, handle>>

\* toml.model_dump_toml(), also right after another dump or a change of its result
CallModelDumpToml ==
    /\ pc = "bound"
    /\ op \in {"none", "model_dump_toml", "set_toml_field"}
    /\ \E r \in {ModelDumpToml(original_model, model, document)} :
           /\ outcome' = r.outcome
           /\ returned' = r.returned
           /\ document' = r.document
    /\ op' = "model_dump_toml"
    /\ args' = <<>>
    /\ UNCHANGED <<pc, model, original_model, assigned, handle>>

\* set_toml_field(dumped, location, value) on the document the last dump returned
ChangeDumped(location, value) ==
    /\ pc = "bound"
    /\ op = "model_dump_toml"
    /\ outcome = "ok"
    /\ \E r \in {SetTomlField(returned, location, value)} :
           /\ outcome' = r.outcome
           /\ returned' = r.toml
           /\ document' = IF DumpCopiesDocument THEN document
                          ELSE SetTomlField(document, location, value).toml
    /\ op' = "set_toml_field"
    /\ args' = <<location, value>>
    /\ UNCHANGED <<pc, model, original_model, assigned, handle>>

\* toml.difference_between_document(incoming_document)
CallDifferenceBetweenDocument(incoming_document) ==
    /\ pc = "bound"
    /\ op' = "difference_between_document"
    /\ args' = <<incoming_document>>
    /\ outcome' = "ok"
    /\ returned' = DifferenceBetweenDocument(model, incoming_document)
    /\ UNCHANGED <<pc, model, original_model, document, assigned, handle>>

\* toml.difference_between_document(toml.model_dump_toml())
DifferenceWithDump ==
    /\ op = "model_dump_toml"
    /\ outcome = "ok"
    /\ CallDifferenceBetweenDocument(returned)

\* toml.load_from_document(incoming_document, selective)
CallLoadFromDocument(incoming_document, selective) ==
    /\ Idle
    /\ \E r \in {LoadFromDocument(model, original_model, incoming_document, selective)} :
           /\ model' = r.model
           /\ outcome' = r.outcome
           /\ handle' = HandleAfterLoad(handle, model, r.outcome)
    /\ op' = "load_from_document"
    /\ args' = <<incoming_document, selective>>
    /\ returned' = None
    /\ UNCHANGED <<pc, original_model, document, assigned>>

\* the caller goes on: the record of the last call is dropped
Discard ==
    /\ pc = "bound"
    /\ op # "none"
    /\ op' = "none"
    /\ args' = <<>>
    /\ outcome' = "ok"
    /\ returned' = None
    /\ UNCHANGED <<pc, model, original_model, document, assigned, handle>>

Next ==
    \/ \E h \in BOOLEAN : Bind(h)
    \/ \E l \in Locations : \E v \in AssignedValues(l) : Assign(l, v)
    \/ \E l \in Locations : \E v \in AssignedValues(l) : \E h \in BOOLEAN :
           CallSetField(l, v, h)
    \/ \E l \in Locations : CallGetField(l)
    \/ CallModelDumpToml
    \/ \E l \in Locations : ChangeDumped(l, PyStr("changed"))
    \/ \E d \in IncomingDocuments : Idle /\ CallDifferenceBetweenDocument(d)
    \/ DifferenceWithDump
    \/ \E d \in IncomingDocuments : \E s \in BOOLEAN : CallLoadFromDocument(d, s)
    \/ Discard

Spec == Init /\ [][Next]_vars

-----------------------------------------------------------------------------
(* Properties *)

\* the value the incoming document holds at a location (None when it has none)
IncomingValue(incoming_document, location) ==
    GetTomlField(incoming_document, location, None).value

\* the loop of load_from_document assigns the incoming value at this location
Assigns(model_, original_model_, incoming_document, selective, location) ==
    /\ InSeq(location,
             DifferenceBetweenDocument(model_, incoming_document).incoming_changed_fields)
    /\ ~Skipped(model_, original_model_,
                DifferenceBetweenDocument(model_, incoming_document), location, selective)
    /\ GetModelField(model_, location, None) # None

\* ... and that assignment fails validation
AssignsInvalid(model_, original_model_, incoming_document, selective, location) ==
    /\ Assigns(model_, original_model_, incoming_document, selective, location)
    /\ SetField(model_, location, IncomingValue(incoming_document, location), TRUE).outcome
           = "TOMLValidationError"

AllLocations == Locations \cup {<<"project">>}

\* C1: when an assignment of load_from_document fails validation the call
\* raises, and a call that raises leaves model, __original_model and __document
\* as they were before it, whatever it had assigned before the failure.
C1_AtomicMergeFailure ==
    [][op' = "load_from_document" =>
          /\ (\E l \in AllLocations :
                  AssignsInvalid(model, original_model, args'[1], args'[2], l))
                => outcome' = "TOMLValidationError"
          /\ outcome' # "ok" =>
                /\ model' = model
                /\ original_model' = original_model
                /\ document' = document]_vars

\* a failed load whose document also holds a valid change of project.name, which
\* the loop assigns before it reaches the invalid project.typechecked
C1_Witness ==
    /\ op = "load_from_document"
    /\ outcome = "TOMLValidationError"
    /\ Assigns(model, original_model, args[1], args[2], <<"project", "name">>)
    /\ AssignsInvalid(model, original_model, args[1], args[2], <<"project", "typechecked">>)

ScalarLocations ==
    {<<"project", "name">>, <<"project", "typechecked">>, <<"extra", "api_id">>}

Current(location) == GetModelField(model, location, None)
Snapshot(location) == GetModelField(original_model, location, None)

\* the annotation of the field at a location of `type`
RECURSIVE AnnotationAt(_, _)
AnnotationAt(type, location) ==
    IF Len(location) = 1 THEN Annotation(type, location[1])
    ELSE AnnotationAt(Annotation(type, Head(location)).type, Tail(location))

\* what the schema makes of a value assigned at a location
ValidatedAt(location, value) == ValidateAnnotation(AnnotationAt("File", location), value)

IsPrefix(a, b) == Len(a) <= Len(b) /\ SubSeq(b, 1, Len(a)) = a

\* the caller assigned neither the field at the location nor a record around
\* it nor a field inside it
Unassigned(location) ==
    \A l \in assigned : ~IsPrefix(l, location) /\ ~IsPrefix(location, l)

\* C2 as stated: a field the caller assigned after bind keeps its value in
\* load_from_document(incoming, selective=True) when the incoming value differs.
C2_AssignedFieldKept ==
    [][(op' = "load_from_document" /\ args'[2]) =>
          \A F \in assigned :
              (/\ IncomingValue(args'[1], F) # None
               /\ IncomingValue(args'[1], F) # Current(F))
                => GetModelField(model', F, None) = Current(F)]_vars

\* C2, amended: a field whose current value is no nested record and differs
\* from its value in __original_model keeps its value in
\* load_from_document(incoming, selective=True), whatever the incoming value.
C2_ChangedFieldKept ==
    [][(op' = "load_from_document" /\ args'[2]) =>
          \A F \in Locations :
              (~IsBaseModel(Current(F)) /\ Current(F) # Snapshot(F))
                => GetModelField(model', F, None) = Current(F)]_vars

\* a successful selective load that adopted one field and whose document holds,
\* at a field that differs from the snapshot, a valid value that is not the
\* field's value
C2_Witness ==
    /\ op = "load_from_document"
    /\ outcome = "ok"
    /\ args[2]
    /\ Current(<<"project", "typechecked">>) # Snapshot(<<"project", "typechecked">>)
    /\ IncomingValue(args[1], <<"project", "typechecked">>)
           \in TypecheckedValues \ {Current(<<"project", "typechecked">>)}
    /\ Current(<<"project", "name">>) = IncomingValue(args[1], <<"project", "name">>)
    /\ Current(<<"project", "name">>) # Snapshot(<<"project", "name">>)
    /\ <<"project", "name">> \notin assigned

\* C3 as stated: a field the caller has not modified since bind, earlier
\* loads or not, takes the incoming value (as the schema validates it) in a
\* successful load_from_document(incoming, selective=True) when that value is
\* valid and differs from the current one.  Fields inside a null record are
\* left out: they do not exist in the model.
C3_UnassignedFieldAdopted ==
    [][(op' = "load_from_document" /\ args'[2] /\ outcome' = "ok") =>
          \A F \in ScalarLocations :
              (/\ Unassigned(F)
               /\ Current(F) # None
               /\ IncomingValue(args'[1], F) # None
               /\ IncomingValue(args'[1], F) # Current(F)
               /\ ValidatedAt(F, IncomingValue(args'[1], F)).errors = <<>>)
                => GetModelField(model', F, None)
                      = ValidatedAt(F, IncomingValue(args'[1], F)).value]_vars

\* C3, amended: a field whose current value is not null and equals its value
\* in __original_model holds, after a successful
\* load_from_document(incoming, selective=True), the validated form of the
\* incoming value, when the document holds a valid value there that differs
\* from the current one.
C3_UnchangedFieldAdopted ==
    [][(op' = "load_from_document" /\ args'[2] /\ outcome' = "ok") =>
          \A F \in AllLocations :
              (/\ Current(F) # None
               /\ Current(F) = Snapshot(F)
               /\ IncomingValue(args'[1], F) # None
               /\ IncomingValue(args'[1], F) # Current(F)
               /\ ValidatedAt(F, IncomingValue(args'[1], F)).errors = <<>>)
                => GetModelField(model', F, None)
                      = ValidatedAt(F, IncomingValue(args'[1], F)).value]_vars

\* a successful selective load after which a field the caller never assigned
\* holds the incoming value, which is not the snapshot's
C3_Witness ==
    /\ op = "load_from_document"
    /\ outcome = "ok"
    /\ args[2]
    /\ assigned = {}
    /\ Current(<<"extra", "api_id">>) = PyInt(2)
    /\ IncomingValue(args[1], <<"extra", "api_id">>) = PyInt(2)
    /\ Snapshot(<<"extra", "api_id">>) = PyInt(1)

\* the value is one the annotation admits, as the schema states it (tomlantic
\* has no such test: it is pydantic's guarantee about a validated tree)
RECURSIVE SatisfiesSchema(_, _)
SatisfiesAnnotation(ann, v) ==
    \/ ann.optional /\ v = None
    \/ ann.type = "str" /\ v[1] = "str"
    \/ ann.type = "bool" /\ v[1] = "bool"
    \/ ann.type = "int" /\ v[1] = "int"
    \/ ann.type \in {"File", "Project", "Extra"} /\ SatisfiesSchema(ann.type, v)

SatisfiesSchema(type, v) ==
    /\ IsBaseModel(v)
    /\ v[2] = type
    /\ DOMAIN v[3] = {FieldNames(type)[i] : i \in 1..Len(FieldNames(type))}
    /\ \A i \in 1..Len(FieldNames(type)) :
           SatisfiesAnnotation(Annotation(type, FieldNames(type)[i]),
                               v[3][FieldNames(type)[i]])

\* C4: after every call on a bound instance, failed ones included, the model
\* tree satisfies the schema; a failed set_field, assignment or
\* load_from_document leaves the tree as it was.
C4_ModelValid ==
    [][pc' = "bound" =>
          /\ SatisfiesSchema("File", model')
          /\ (op' \in {"assign", "set_field", "load_from_document"} /\ outcome' # "ok")
                => model' = model]_vars

\* a failed assignment of a value the schema rejects, on a tree that earlier
\* calls have changed
C4_Witness ==
    /\ pc = "bound"
    /\ op \in {"assign", "set_field"}
    /\ outcome \in {"ValidationError", "TOMLValidationError"}
    /\ args[2] = PyStr("???")
    /\ model # original_model

\* C5: from bind on no call changes __original_model, and bind sets it to the
\* tree it validated.
C5_SnapshotImmutable ==
    [][/\ pc = "bound" => original_model' = original_model
       /\ (op' = "bind" /\ outcome' = "ok")
             => original_model' = ValidateModel("File", document).value]_vars

\* a successful assignment after which the tree differs from the snapshot
C5_Witness ==
    /\ op \in {"assign", "set_field"}
    /\ outcome = "ok"
    /\ model # original_model
    /\ assigned # {}

\* C6: model_dump_toml on a tree equal to the snapshot (as it is right after
\* bind, and the call reads nothing else) returns a document equal to the
\* bound one.
C6_RoundTripIdentity ==
    (op = "model_dump_toml" /\ model = original_model /\ assigned = {})
        => (outcome = "ok" /\ returned = document)

\* the tree differs from the snapshot at this scalar location and nowhere else
OnlyMutation(F) ==
    /\ Current(F) # Snapshot(F)
    /\ ~IsBaseModel(Current(F)) /\ Current(F) # None
    /\ ~IsBaseModel(Snapshot(F)) /\ Snapshot(F) # None
    /\ Replace(model, F, Snapshot(F)) = original_model

\* C7: after one scalar mutation the dumped document is the bound one with the
\* new value at that location and no other change, and after a mutation that
\* was set back it is the bound one.
C7_MinimalPatch ==
    op = "model_dump_toml" =>
        /\ \A F \in ScalarLocations :
               OnlyMutation(F) =>
                   /\ outcome = "ok"
                   /\ returned = SetTomlField(document, F, Current(F)).toml
        /\ (assigned # {} /\ model = original_model)
               => (outcome = "ok" /\ returned = document)

\* C7 on bound documents that hold a table for every nested record of the tree
C7_MinimalPatchWithTables ==
    (op = "model_dump_toml" /\ Contains(document, "project")) =>
        /\ \A F \in ScalarLocations :
               OnlyMutation(F) =>
                   /\ outcome = "ok"
                   /\ returned = SetTomlField(document, F, Current(F)).toml
        /\ (assigned # {} /\ model = original_model)
               => (outcome = "ok" /\ returned = document)

\* C8: difference_between_document applied to the document that
\* model_dump_toml just returned reports no path in either set.
C8_DiffOfDumpEmpty ==
    (/\ op = "difference_between_document"
     /\ ModelDumpToml(original_model, model, document).outcome = "ok"
     /\ args[1] = ModelDumpToml(original_model, model, document).returned)
        => returned = NoDifference

\* the document holds a key at every step of the location
RECURSIVE HasPath(_, _)
HasPath(toml, location) ==
    /\ IsTable(toml)
    /\ Contains(toml, Head(location))
    /\ Len(location) > 1 => HasPath(Item(toml, Head(location)), Tail(location))

\* the comparison gets to the location: every record around it is a record in
\* the tree and a table in the document
Compared(incoming_document, location) ==
    \A n \in 1..(Len(location) - 1) :
        /\ IsBaseModel(Current(SubSeq(location, 1, n)))
        /\ HasPath(incoming_document, SubSeq(location, 1, n))
        /\ IsTable(IncomingValue(incoming_document, SubSeq(location, 1, n)))

ExpectedOutgoing(incoming_document) ==
    {l \in AllLocations :
        Compared(incoming_document, l) /\ ~HasPath(incoming_document, l)}

ExpectedIncoming(incoming_document) ==
    {l \in AllLocations :
        /\ Compared(incoming_document, l)
        /\ HasPath(incoming_document, l)
        /\ IF IsBaseModel(Current(l))
           THEN ~IsTable(IncomingValue(incoming_document, l))
           ELSE Current(l) # IncomingValue(incoming_document, l)}

Elements(s) == {s[i] : i \in 1..Len(s)}

C10_ReadOnly ==
    [][/\ op' \in {"model_dump_toml", "difference_between_document"} =>
             /\ model' = model
             /\ original_model' = original_model
             /\ document' = document
       /\ (op = "model_dump_toml" /\ op' = "model_dump_toml") =>
             /\ outcome' = outcome
             /\ returned' = returned
       /\ op' = "set_toml_field" =>
             /\ document' = document
             /\ ModelDumpToml(original_model', model', document').returned = returned]_vars

\* the caller has changed the document a dump of a changed tree returned, and
\* holds a document that a dump now would not return
C10_Witness ==
    /\ op = "set_toml_field"
    /\ outcome = "ok"
    /\ model # original_model
    /\ returned # document
    /\ returned # ModelDumpToml(original_model, model, document).returned

-----------------------------------------------------------------------------
(* get_toml_field and set_toml_field on a document no instance is bound to. *)
(* pc = "raw"; document is the caller's document, which set_toml_field      *)
(* changes in place.                                                        *)

RawDocuments ==
    {TableOf([project |-> p, extra |-> e]) :
        p \in {Absent, PyStr("scalar"), Table(EmptyItems),
                Table([name |-> PyStr("tomlantic")]),
                Table([name |-> Table(EmptyItems)])},
        e \in {Absent, Table("api_id" :> PyInt(1))}}

\* "project", "project.name", "project.name.nonexistent", "extra.api_id", "whuh"
RawLocations ==
    {<<"project">>, <<"project", "name">>, <<"project", "name", "nonexistent">>,
     <<"extra", "api_id">>, <<"whuh">>}

RawDefaults == {None, PyStr("tomlantic"), PyStr("?")}

RawValues == {PyStr("?"), PyInt(1)}

RawInit ==
    /\ pc = "raw"
    /\ model = None
    /\ original_model = None
    /\ document \in RawDocuments
    /\ assigned = {}
    /\ op = "none"
    /\ args = <<>>
    /\ outcome = "ok"
    /\ returned = None
    /\ handle = None

\* get_toml_field(document, location, default)
CallGetTomlField(location, default) ==
    /\ pc = "raw"
    /\ \E r \in {GetTomlField(document, location, default)} :
           /\ outcome' = r.outcome
           /\ returned' = r.value
    /\ op' = "get_toml_field"
    /\ args' = <<location, default>>
    /\ UNCHANGED <<pc, model, original_model, document, assigned, handle>>

\* set_toml_field(document, location, value)
CallSetTomlField(location, value) ==
    /\ pc = "raw"
    /\ \E r \in {SetTomlField(document, location, value)} :
           /\ outcome' = r.outcome
           /\ document' = r.toml
    /\ op' = "set_toml_field"
    /\ args' = <<location, value>>
    /\ returned' = None
    /\ UNCHANGED <<pc, model, original_model, assigned, handle>>

RawNext ==
    \/ \E l \in RawLocations : \E d \in RawDefaults : CallGetTomlField(l, d)
    \/ \E l \in RawLocations : \E v \in RawValues : CallSetTomlField(l, v)

RawSpec == RawInit /\ [][RawNext]_vars

\* the node a path addresses, Absent when a segment is missing or is looked up
\* in a node that is no table
RECURSIVE NodeAt(_, _)
NodeAt(toml, location) ==
    IF location = <<>> THEN toml
    ELSE IF IsTable(toml) /\ Contains(toml, Head(location))
    THEN NodeAt(Item(toml, Head(location)), Tail(location))
    ELSE Absent

\* C11: get_toml_field returns the value at the location when every segment is
\* present and the default, without raising, when a segment is absent, also
\* when a segment before the last addresses a node that is no table.
C11_GetNeverRaises ==
    op = "get_toml_field" =>
        /\ outcome = "ok"
        /\ returned = IF NodeAt(document, args[1]) # Absent
                      THEN NodeAt(document, args[1]) ELSE args[2]

Prefix(location, n) == SubSeq(location, 1, n)

\* a segment before the last addresses a node that is no table
Blocked(toml, location) ==
    \E n \in 1..(Len(location) - 1) :
        /\ NodeAt(toml, Prefix(location, n)) # Absent
        /\ ~IsTable(NodeAt(toml, Prefix(location, n)))

Segments == {"project", "name", "nonexistent", "extra", "api_id", "whuh"}

\* every path of up to three segments
Paths == UNION {[1..n -> Segments] : n \in 1..3}

C13_NonContainerWrite ==
    [][(op' = "set_toml_field" /\ pc = "raw" /\ Blocked(document, args'[1])) =>
          /\ outcome' = "LookupError"
          /\ document' = document]_vars

\* set_toml_field(document, "project.name.nonexistent", value) raised where
\* project.name is a string
C13_Witness ==
    /\ pc = "raw"
    /\ op = "set_toml_field"
    /\ outcome = "LookupError"
    /\ args[1] = <<"project", "name", "nonexistent">>
    /\ NodeAt(document, <<"project", "name">>) = PyStr("tomlantic")

\* C29: whenever set_toml_field raises LookupError the document is as it was
\* before the call, node for node: no table was made on the way and no value
\* was written; and it raises only where a segment before the last holds a
\* node that is no table, whichever segment that is and however long the path.
C29_FailedSetUnchanged ==
    [][(op' = "set_toml_field" /\ pc = "raw" /\ outcome' = "LookupError") =>
          /\ document' = document
          /\ \A q \in Paths : NodeAt(document', q) = NodeAt(document, q)
          /\ Blocked(document, args'[1])]_vars

\* set_toml_field(document, "project.name.nonexistent", value) raised where
\* the first of three segments holds a string, in a document with a table
\* beside it
C29_Witness ==
    /\ pc = "raw"
    /\ op = "set_toml_field"
    /\ outcome = "LookupError"
    /\ Len(args[1]) = 3
    /\ NodeAt(document, <<"project">>) = PyStr("scalar")
    /\ IsTable(NodeAt(document, <<"extra">>))

-----------------------------------------------------------------------------
(* handle_validation_error on the failures of a pydantic.ValidationError;  *)
(* pc = "classifier".                                                      *)

ErrorTypes ==
    {NoType, "missing", "frozen_field", "frozen_instance", "no_such_attribute",
     "extra_forbidden", "bool_parsing"}

\* ("project", "typechecked") and ("items", 0)
ErrorLocs == {<<PyStr("project"), PyStr("typechecked")>>, <<PyStr("items"), PyInt(0)>>}

ErrorDetails == [type : ErrorTypes, loc : ErrorLocs]

\* e.errors() of a ValidationError
ErrorLists == UNION {[1..n -> ErrorDetails] : n \in 1..MaxErrors}

LocationOverrides == {None, <<"project", "name">>}

ClassifierInit ==
    /\ pc = "classifier"
    /\ model = None
    /\ original_model = None
    /\ document = Table(EmptyItems)
    /\ assigned = {}
    /\ op = "none"
    /\ args = <<>>
    /\ outcome = "ok"
    /\ returned = None
    /\ handle = None

\* handle_validation_error(e, location_override)
CallHandleValidationError(errors, location_override) ==
    /\ pc = "classifier"
    /\ op' = "handle_validation_error"
    /\ args' = <<errors, location_override>>
    /\ outcome' = "TOMLValidationError"
    /\ returned' = HandleValidationError(errors, location_override)
    /\ UNCHANGED <<pc, model, original_model, document, assigned, handle>>

ClassifierNext ==
    \E e \in ErrorLists : \E l \in LocationOverrides : CallHandleValidationError(e, l)

ClassifierSpec == ClassifierInit /\ [][ClassifierNext]_vars

\* the kind the classification rule gives a tag
KindOf(tag) ==
    CASE tag = "missing" -> "TOMLMissingError"
      [] tag \in {"frozen_field", "frozen_instance"} -> "TOMLFrozenError"
      [] tag \in {"no_such_attribute", "extra_forbidden"} -> "TOMLAttributeError"
      [] OTHER -> "TOMLValueError"

\* how often x is an item of the sequence
Count(x, seq) == Cardinality({i \in 1..Len(seq) : seq[i] = x})

\* the failures the records came from, in the order of the records
Origins(aggregate) == [i \in 1..Len(aggregate.errors) |-> aggregate.errors[i].pydantic_error]

\* C14: handle_validation_error makes exactly one record for every failure
\* whose tag is not null; the record is of the kind the rule gives the tag and
\* carries the failure it came from.
C14_Classification ==
    op = "handle_validation_error" =>
        /\ \A f \in ErrorDetails :
               f.type # NoType => Count(f, Origins(returned)) = Count(f, args[1])
        /\ \A i \in 1..Len(returned.errors) :
               /\ returned.errors[i].pydantic_error.type # NoType
               /\ returned.errors[i].class = KindOf(returned.errors[i].pydantic_error.type)

\* a batch of a frozen instance and a forbidden extra key
C14_Witness ==
    /\ op = "handle_validation_error"
    /\ Len(returned.errors) = 2
    /\ returned.errors[1].pydantic_error.type = "frozen_instance"
    /\ returned.errors[1].class = "TOMLFrozenError"
    /\ returned.errors[2].pydantic_error.type = "extra_forbidden"
    /\ returned.errors[2].class = "TOMLAttributeError"

\* the failures with a tag, in their order
RECURSIVE Tagged(_)
Tagged(errors) ==
    IF errors = <<>> THEN <<>>
    ELSE IF Head(errors).type = NoType THEN Tagged(Tail(errors))
    ELSE <<Head(errors)>> \o Tagged(Tail(errors))

\* C15: handle_validation_error raises one TOMLValidationError whose records
\* come from the failures with a tag, one each and in their order, with none
\* for a failure without a tag; its message has one line per record; with a
\* location override every record has the override as its loc.
C15_AggregateAsUnit ==
    op = "handle_validation_error" =>
        /\ outcome = "TOMLValidationError"
        /\ Origins(returned) = Tagged(args[1])
        /\ Len(returned.message) = Len(returned.errors)
        /\ args[2] # None => \A i \in 1..Len(returned.errors) : returned.errors[i].loc = args[2]

\* a batch whose first failure has no tag and whose second has one, with an
\* override
C15_Witness ==
    /\ op = "handle_validation_error"
    /\ Len(args[1]) = 2
    /\ args[1][1].type = NoType
    /\ args[1][2].type = "missing"
    /\ args[2] = <<"project", "name">>
    /\ Len(returned.errors) = 1

\* C16: a TOMLValidationError holds at least one record, whatever the failures
\* it was made from.
C16_ErrorsNeverEmpty ==
    outcome = "TOMLValidationError" => returned.errors # <<>>

\* C17: when the document fails validation, bind leaves no bound instance (no
\* tree, no snapshot, no call can follow) and raises the TOMLValidationError
\* that handle_validation_error makes of the failures if handle_errors is
\* true, the failures themselves if it is false; when the document validates,
\* the tree and the snapshot are the validated tree and the document is kept.
C17_BindRejectsWholesale ==
    /\ pc = "failed" => (op = "bind" /\ model = None /\ original_model = None)
    /\ op = "bind" =>
          IF ValidateModel("File", document).errors # <<>>
          THEN /\ pc = "failed"
               /\ args[1] =>
                     /\ outcome = "TOMLValidationError"
                     /\ Origins(returned) = ValidateModel("File", document).errors
                     /\ \A i \in 1..Len(returned.errors) :
                            /\ returned.errors[i].class
                                  = KindOf(returned.errors[i].pydantic_error.type)
                            /\ returned.errors[i].loc
                                  = Strings(returned.errors[i].pydantic_error.loc)
               /\ ~args[1] =>
                     /\ outcome = "ValidationError"
                     /\ returned = ValidateModel("File", document).errors
          ELSE /\ pc = "bound"
               /\ outcome = "ok"
               /\ SatisfiesSchema("File", model)
               /\ model = ValidateModel("File", document).value
               /\ original_model = model

\* ModelBoundTOML(File, document, handle_errors=False) raised pydantic's
\* failure for typechecked = "???"
C17_Witness ==
    /\ pc = "failed"
    /\ op = "bind"
    /\ ~args[1]
    /\ outcome = "ValidationError"
    /\ Len(returned) = 1
    /\ returned[1].type = "bool_parsing"
    /\ returned[1].loc = <<PyStr("project"), PyStr("typechecked")>>

\* the table without the keys that are no field of the record it is read for
RECURSIVE Declared(_, _)
DeclaredItem(type, key, value) ==
    IF IsTable(value) /\ Annotation(type, key).type \in {"Project", "Extra"}
    THEN Declared(Annotation(type, key).type, value)
    ELSE value

Declared(type, toml) ==
    Table([k \in {k \in DOMAIN toml[2] : IsDeclared(type, k)} |->
              DeclaredItem(type, k, toml[2][k])])

UndeclaredLocations == {<<"whuh">>, <<"project", "whuh">>, <<"whuh", "name">>}

\* C18: a key of the incoming document that is no field of the model is in
\* neither list of difference_between_document and has no effect on it; after
\* load_from_document the tree has no such field, get_field on its path gives
\* the default, and the tree is what the document without the key gives.
C18_UndeclaredIgnored ==
    [][/\ op' = "difference_between_document" =>
             /\ \A l \in UndeclaredLocations :
                    /\ ~InSeq(l, returned'.incoming_changed_fields)
                    /\ ~InSeq(l, returned'.outgoing_changed_fields)
             /\ returned' = DifferenceBetweenDocument(model, Declared("File", args'[1]))
       /\ op' = "load_from_document" =>
             /\ SatisfiesSchema("File", model')
             /\ \A l \in UndeclaredLocations : GetModelField(model', l, None) = None
             /\ model' = LoadFromDocument(model, original_model,
                                          Declared("File", args'[1]), args'[2]).model
             /\ outcome' = LoadFromDocument(model, original_model,
                                            Declared("File", args'[1]), args'[2]).outcome]_vars

\* a successful load that took project.name from a document holding whuh in
\* [project]
C18_Witness ==
    /\ op = "load_from_document"
    /\ outcome = "ok"
    /\ NodeAt(args[1], <<"project", "whuh">>) = PyStr("???")
    /\ Current(<<"project", "name">>) = PyStr("NOT tomlantic")
    /\ Snapshot(<<"project", "name">>) = PyStr("tomlantic")
    /\ GetModelField(model, <<"project", "whuh">>, None) = None

-----------------------------------------------------------------------------
(* Models with a list or a dict of records (tests/test-array-of-tables.py,  *)
(* tests/test-phonyplane.py).  The caller changes the collections in place; *)
(* Item and Flight do not validate assignments.                             *)

ArrayDocument ==
    Table([title |-> PyStr("Test Array"),
           items |-> AoT(<<Table([name |-> PyStr("first"), value |-> PyInt(1)]),
                           Table([name |-> PyStr("second"), value |-> PyInt(2)])>>)])

PhonyplaneDocument ==
    Table("flights" :> Table("ABC123" :> Table("ident" :> PyStr("ABC123"))))

CollectionInit ==
    /\ pc = "unbound"
    /\ model = None
    /\ original_model = None
    /\ document \in {ArrayDocument, PhonyplaneDocument}
    /\ assigned = {}
    /\ op = "none"
    /\ args = <<>>
    /\ outcome = "ok"
    /\ returned = None
    /\ handle = None

\* ModelBoundTOML(ConfigWithArray, ...) and ModelBoundTOML(PhonyplaneConfig, ...)
BindCollection ==
    \/ document = ArrayDocument /\ BindAs("ConfigWithArray", TRUE)
    \/ document = PhonyplaneDocument /\ BindAs("PhonyplaneConfig", TRUE)

\* a change of the collection in the field `key` of toml.model
Changed(key, collection, name) ==
    /\ model' = WithAttr(model, key, collection)
    /\ original_model' = OriginalModelAfterWrite(original_model, model')
    /\ assigned' = assigned \cup {<<key>>}
    /\ op' = name
    /\ outcome' = "ok"
    /\ returned' = None
    /\ UNCHANGED <<pc, document, handle>>

\* toml.model.items[i - 1].value = value
ModifyElement(i, value) ==
    /\ Idle
    /\ model[2] = "ConfigWithArray"
    /\ i \in 1..Len(Attr(model, "items")[2])
    /\ args' = <<i, value>>
    /\ Changed("items",
               PyList([Attr(model, "items")[2]
                          EXCEPT ![i] = WithAttr(@, "value", value)]),
               "modify")

\* toml.model.items.append(item)
AppendElement(item) ==
    /\ Idle
    /\ model[2] = "ConfigWithArray"
    /\ Len(Attr(model, "items")[2]) < MaxItems
    /\ args' = <<item>>
    /\ Changed("items", PyList(Append(Attr(model, "items")[2], item)), "append")

\* toml.model.items.pop(0)
RemoveElement ==
    /\ Idle
    /\ model[2] = "ConfigWithArray"
    /\ Len(Attr(model, "items")[2]) > 0
    /\ args' = <<0>>
    /\ Changed("items", PyList(Tail(Attr(model, "items")[2])), "pop")

\* toml.model.flights[key] = flight
AddKey(key, flight) ==
    /\ Idle
    /\ model[2] = "PhonyplaneConfig"
    /\ Cardinality(DOMAIN Attr(model, "flights")[2] \cup {key}) <= MaxItems
    /\ args' = <<key, flight>>
    /\ Changed("flights",
               PyDict([k \in DOMAIN Attr(model, "flights")[2] \cup {key} |->
                          IF k = key THEN flight ELSE Attr(model, "flights")[2][k]]),
               "setitem")

CollectionNext ==
    \/ BindCollection
    \/ \E i \in 1..MaxItems : \E v \in {PyInt(1), PyInt(2), PyInt(10)} : ModifyElement(i, v)
    \/ AppendElement(Instance("Item", [name |-> PyStr("third"), value |-> PyInt(3)]))
    \/ RemoveElement
    \/ \E k \in {"ABC123", "DEF456", "GHI789"} :
           AddKey(k, Instance("Flight", "ident" :> PyStr(k)))
    \/ CallModelDumpToml
    \/ Discard

CollectionSpec == CollectionInit /\ [][CollectionNext]_vars

\* the content of a value of the tree or of the document: a record as a table
\* of its fields, an array of tables as a list, a dict as a table
RECURSIVE Plain(_)
Plain(v) ==
    CASE v[1] = "model" -> Table([k \in DOMAIN v[3] |-> Plain(v[3][k])])
      [] v[1] \in {"table", "dict"} -> Table([k \in DOMAIN v[2] |-> Plain(v[2][k])])
      [] v[1] \in {"list", "aot"} -> PyList([i \in 1..Len(v[2]) |-> Plain(v[2][i])])
      [] OTHER -> v

CollectionField == IF model[2] = "ConfigWithArray" THEN "items" ELSE "flights"

\* C20: after the caller changed an element of a list of records, appended or
\* removed one, or set a key of a dict of records, model_dump_toml succeeds and
\* the document it returns holds at that field the content of the collection.
C20_CollectionsDump ==
    (op = "model_dump_toml" /\ assigned # {}
                            /\ model[2] \in {"ConfigWithArray", "PhonyplaneConfig"}) =>
        /\ outcome = "ok"
        /\ Contains(returned, CollectionField)
        /\ Plain(Item(returned, CollectionField)) = Plain(Attr(model, CollectionField))

InvalidAt(incoming_document, location) ==
    ValidatedAt(location, IncomingValue(incoming_document, location)).errors # <<>>

\* an incoming change at a field that holds a value and holds what the
\* snapshot holds
Adopted(incoming_document, location) ==
    /\ location \in ExpectedIncoming(incoming_document)
    /\ Current(location) # None
    /\ Current(location) = Snapshot(location)

\* C22: load_from_document(incoming, selective=True) raises exactly when the
\* document holds an invalid value at an incoming change that is not passed
\* over as changed since bind; an invalid value at a field that is passed over
\* does not make it raise, and when it does not raise every incoming change
\* that is not passed over holds the validated incoming value.
C22_SkippedNotValidated ==
    [][(op' = "load_from_document" /\ args'[2]) =>
          /\ outcome' # "ok" <=>
                \E F \in AllLocations : Adopted(args'[1], F) /\ InvalidAt(args'[1], F)
          /\ outcome' = "ok" =>
                \A F \in AllLocations :
                    Adopted(args'[1], F) =>
                        GetModelField(model', F, None)
                            = ValidatedAt(F, IncomingValue(args'[1], F)).value]_vars

\* the load of showcase.py: typechecked was changed since bind, the document
\* holds "???" there, the call succeeds and project.name is adopted
C22_Witness ==
    /\ op = "load_from_document"
    /\ args[2]
    /\ outcome = "ok"
    /\ Current(<<"project", "typechecked">>) # Snapshot(<<"project", "typechecked">>)
    /\ IncomingValue(args[1], <<"project", "typechecked">>) = PyStr("???")
    /\ InvalidAt(args[1], <<"project", "typechecked">>)
    /\ Current(<<"project", "name">>) = PyStr("NOT tomlantic")
    /\ IncomingValue(args[1], <<"project", "name">>) = PyStr("NOT tomlantic")
    /\ Snapshot(<<"project", "name">>) = PyStr("tomlantic")
    /\ <<"project", "name">> \notin assigned

\* the paths difference_between_document reports as incoming changes
IncomingChanged(incoming_document) ==
    {F \in AllLocations :
        InSeq(F, DifferenceBetweenDocument(model, incoming_document).incoming_changed_fields)}

\* C23: a successful load_from_document, selective or not, leaves every field
\* whose path is not among the incoming changes of the diff, and that is not a
\* record around such a path, with the value it had before the call, and
\* leaves the snapshot and the stored document as they were.
C23_MergeFrame ==
    [][(op' = "load_from_document" /\ outcome' = "ok") =>
          /\ \A F \in AllLocations :
                (\A G \in IncomingChanged(args'[1]) : ~IsPrefix(F, G))
                    => GetModelField(model', F, None) = Current(F)
          /\ original_model' = original_model
          /\ document' = document]_vars

\* a successful load that adopted project.name and left project.typechecked,
\* changed since bind and equal in the document, as it was
C23_Witness ==
    /\ op = "load_from_document"
    /\ outcome = "ok"
    /\ Current(<<"project", "name">>) = PyStr("NOT tomlantic")
    /\ Snapshot(<<"project", "name">>) = PyStr("tomlantic")
    /\ <<"project", "name">> \notin assigned
    /\ <<"project", "typechecked">> \in assigned
    /\ Current(<<"project", "typechecked">>) # Snapshot(<<"project", "typechecked">>)
    /\ IncomingValue(args[1], <<"project", "typechecked">>) = Current(<<"project", "typechecked">>)
    /\ Snapshot(<<"extra">>) = Current(<<"extra">>)

\* C24: the assertions of apply_model_differences never fail: wherever the
\* current tree holds a nested record the snapshot holds a nested record too,
\* also after a field that was None at bind was given a record, so that no
\* model_dump_toml() ends in an AssertionError.
C24_LockstepAssertionsHold ==
    op = "model_dump_toml" =>
        /\ \A F \in AllLocations : IsBaseModel(Current(F)) => IsBaseModel(Snapshot(F))
        /\ outcome # "AssertionError"

-----------------------------------------------------------------------------
(* The stored document in the caller's hands: `self.__document = document`
   keeps the object the caller passed, so that set_toml_field on it changes
   the document model_dump_toml starts from *)

StoredLocations == {<<"project">>, <<"project", "name">>, <<"extra">>, <<"whuh">>}

StoredValues == {PyStr("scalar"), PyInt(1)}

\* set_toml_field(document, location, value) on the document given at bind
CallSetTomlFieldOnStored(location, value) ==
    /\ Idle
    /\ \E r \in {SetTomlField(document, location, value)} :
           /\ outcome' = r.outcome
           /\ document' = r.toml
    /\ op' = "set_toml_field_on_stored"
    /\ args' = <<location, value>>
    /\ returned' = None
    /\ UNCHANGED <<pc, model, original_model, assigned, handle>>

StoredNext ==
    \/ \E h \in BOOLEAN : Bind(h)
    \/ \E l \in StoredLocations : \E v \in StoredValues : CallSetTomlFieldOnStored(l, v)
    \/ Idle /\ CallModelDumpToml
    \/ \E d \in IncomingDocuments : Idle /\ CallDifferenceBetweenDocument(d)
    \/ Discard

StoredSpec == Init /\ [][StoredNext]_vars

\* the fields of the model that hold a nested record
RecordLocations == {F \in AllLocations : IsBaseModel(Current(F))}

\* the document holds a node that is no table where the tree holds a record
ScalarAtRecord(toml, F) ==
    /\ F \in RecordLocations
    /\ HasPath(toml, F)
    /\ ~IsTable(NodeAt(toml, F))

\* difference_between_document reports a non-table node at the path of a
\* nested record as an incoming change
C25_DiffReportsScalar ==
    op = "difference_between_document" =>
        \A F \in AllLocations :
            ScalarAtRecord(args[1], F) => InSeq(F, returned.incoming_changed_fields)

\* C25: a non-table node at the path of a nested record is no crash: in the
\* incoming document, difference_between_document reports the path as an
\* incoming change; in the stored document, after the caller changed it with
\* set_toml_field, model_dump_toml() completes.
C25_ScalarAtRecordNoCrash ==
    /\ C25_DiffReportsScalar
    /\ (op = "model_dump_toml" /\ \E F \in AllLocations : ScalarAtRecord(document, F))
           => outcome = "ok"

-----------------------------------------------------------------------------
(* The two lists of a Difference *)

\* no element of the sequence occurs at two indices
NoRepeats(s) == \A i, j \in 1..Len(s) : s[i] = s[j] => i = j

\* the lists of one diff hold no path twice, and with them the loop of
\* load_from_document passes over an incoming change exactly when the load is
\* selective and the field differs from its snapshot value
ListsDisjoint(differences, selective) ==
    /\ NoRepeats(differences.incoming_changed_fields \o differences.outgoing_changed_fields)
    /\ \A i \in 1..Len(differences.incoming_changed_fields) :
           Skipped(model, original_model, differences,
                   differences.incoming_changed_fields[i], selective)
               <=> /\ selective
                   /\ Current(differences.incoming_changed_fields[i])
                          # Snapshot(differences.incoming_changed_fields[i])

C27_StickyAfterMerge ==
    [][(op' = "load_from_document" /\ args'[2]) =>
          /\ original_model' = original_model
          /\ \A F \in AllLocations :
                 (Current(F) # Snapshot(F) /\ ~IsBaseModel(Current(F)))
                     => GetModelField(model', F, None) = Current(F)]_vars

\* a successful selective load left project.name, which the caller never
\* assigned and an earlier load had adopted, as it was, although the document
\* holds another valid name there
C27_Witness ==
    /\ op = "load_from_document"
    /\ args[2]
    /\ outcome = "ok"
    /\ assigned = {}
    /\ Current(<<"project", "name">>) = PyStr("NOT tomlantic")
    /\ Snapshot(<<"project", "name">>) = PyStr("tomlantic")
    /\ IncomingValue(args[1], <<"project", "name">>) = PyStr("tomlantic")
    /\ ~InvalidAt(args[1], <<"project", "name">>)

-----------------------------------------------------------------------------
(* A reference to the tree in the caller's hands: `m = toml.model`, kept over
   calls of the bound instance *)

HandleLocations == {<<"project", "name">>, <<"project", "typechecked">>}

\* documents for [project] alone
HandleDocuments ==
    {d \in IncomingDocuments : ~Contains(d, "extra") /\ ~Contains(d, "whuh")}

\* handle = toml.model
TakeHandle ==
    /\ Idle
    /\ handle # Live
    /\ handle' = Live
    /\ UNCHANGED <<pc, model, original_model, document, assigned, op, args, outcome, returned>>

\* handle.<location> = value on a tree self.model no longer holds
AssignDetached(location, value) ==
    /\ Idle
    /\ \E r \in {Setattr(handle, location, value)} :
           /\ handle' = r.model
           /\ outcome' = r.outcome
    /\ op' = "assign"
    /\ args' = <<location, value>>
    /\ returned' = None
    /\ UNCHANGED <<pc, model, original_model, document, assigned>>

\* handle.<location> = value
AssignThroughHandle(location, value) ==
    /\ handle # None
    /\ IF handle = Live THEN Assign(location, value)
       ELSE AssignDetached(location, value)

HandleNext ==
    \/ \E h \in BOOLEAN : Bind(h)
    \/ TakeHandle
    \/ \E l \in HandleLocations : \E v \in AssignedValues(l) : AssignThroughHandle(l, v)
    \/ \E d \in HandleDocuments : \E s \in BOOLEAN : CallLoadFromDocument(d, s)
    \/ \E l \in HandleLocations : CallGetField(l)
    \/ Idle /\ CallModelDumpToml
    \/ \E d \in HandleDocuments : Idle /\ CallDifferenceBetweenDocument(d)
    \/ Discard

HandleSpec == Init /\ [][HandleNext]_vars

\* the reference refers to a tree self.model does not hold
Detached == handle # None /\ handle # Live

\* C28: every successful load_from_document, also one that adopts no field,
\* leaves a reference taken from ModelBoundTOML.model before it on the tree
\* self.model held until then, a failed one leaves it live; an assignment made
\* through a reference that is no longer live changes nothing of the bound
\* instance, and get_field, model_dump_toml, difference_between_document and
\* load_from_document work on the tree self.model holds.
C28_HandleReplacedOnLoad ==
    [][/\ (op' = "load_from_document" /\ outcome' = "ok" /\ handle = Live) =>
              (handle' = model /\ handle' # Live)
       /\ (op' = "load_from_document" /\ outcome' # "ok") =>
              (handle' = handle /\ model' = model)
       /\ (op' = "assign" /\ Detached) =>
              (model' = model /\ original_model' = original_model /\ document' = document)
       /\ (op' = "assign" /\ handle = Live /\ outcome' = "ok") =>
              (handle' = Live /\ GetModelField(model', args'[1], None) = args'[2])
       /\ op' = "get_field" => returned' = GetModelField(model, args'[1], None)
       /\ op' = "model_dump_toml" =>
              returned' = ModelDumpToml(original_model, model, document).returned
       /\ op' = "difference_between_document" =>
              returned' = DifferenceBetweenDocument(model, args'[1])
       /\ op' = "load_from_document" =>
              model' = LoadFromDocument(model, original_model, args'[1], args'[2]).model]_vars

\* an assignment was just made through a reference taken before a successful
\* load: the tree it refers to holds the value, the tree self.model holds
\* does not
C28_Witness ==
    /\ op = "assign"
    /\ outcome = "ok"
    /\ Detached
    /\ GetModelField(handle, args[1], None) = args[2]
    /\ Current(args[1]) # args[2]
====
